---- MODULE Spec2Model ----
(***************************************************************************)
(* SyferText tutorial "Part 0 - (Getting Started) Local Tokenization".     *)
(*                                                                         *)
(* The program is the notebook: a kernel namespace (imported, hook, me,    *)
(* nlp, my_str, doc, my_string), the cells that bind those names, and the  *)
(* outputs the cells display.  A cell can be run whenever the kernel is    *)
(* idle (the stored execution counts skip 8, so the cells were not run     *)
(* once top to bottom); a cell that reads an unbound name raises NameError *)
(* and binds nothing further.                                              *)
(*                                                                         *)
(* The library behind the calls (syfertext.load, Language.__call__,        *)
(* Tokenizer, Doc, Token) is not part of the notebook.  What it returns    *)
(* for the two texts of the notebook is taken from the outputs stored in   *)
(* the notebook; an attribute that no cell prints is NoPos / NoOrth.       *)
(***************************************************************************)
EXTENDS Integers, Sequences, FiniteSets, TLC

VARIABLES
    execution_count,  \* the kernel's execution counter
    imported,         \* cell 2 ran: sy, torch, syfertext are bound
    hook,             \* cell 3: hook
    me,               \* cell 4: me
    nlp,              \* cell 5: nlp
    my_str,           \* cell 6: my_str
    doc,              \* cells 6 and 13: doc
    string_imported,  \* cell 11: String
    my_string,        \* cell 12: my_string
    running,          \* the cells whose code is executing
    tokenizer,        \* the Tokenizer spawned by the last Language call
    newdoc,           \* the Doc the running Language call is filling
    iter,             \* the running "for token in doc" loop
    out               \* the outputs displayed under the cells

vars == <<execution_count, imported, hook, me, nlp, my_str, doc,
          string_imported, my_string, running, tokenizer, newdoc, iter, out>>

namespace == <<imported, hook, me, nlp, my_str, doc, string_imported, my_string>>

-----------------------------------------------------------------------------
(* Bounds and values *)

\* Cap on the execution counter; the stored notebook reaches 13.
MaxExec == 13

None == [type |-> "NoneType"]

LocalWorker == "me"

Bound(x) == x # None

NoPos == 0 - 1

NoOrth == "not printed"

MyStrText ==
    <<"D", "r", ".", " ", "d", "o", "o", "m", "!", " ", "i", "s", " ", " ",
      "(", "{", "t", "o", "k", "e", "n", "-", "i", "z", "i", "n", "g", " ",
      "a", " ", "p", "y", "t", "h", "o", "n", "!", " ", "s", "t", "r", "i",
      "n", "g">>

MyStringText ==
    <<"I", " ", "a", "m", " ", "t", "o", "k", "e", "n", "#", "i", "z", "i",
      "n", "g", " ", "a", " ", "P", "y", "S", "y", "f", "t", " ", "S", "t",
      "r", "i", "n", "g", " ", "o", "b", "j", "e", "c", "t">>

Tok(t, sa, s, e, o) ==
    [text |-> t, space_after |-> sa, start_pos |-> s, stop_pos |-> e, orth |-> o]

\* The rows printed by "for token in doc" for my_str.
MyStrTokens ==
    << Tok(<<"D", "r", ".">>, TRUE, 0, 3, NoOrth),
       Tok(<<"d", "o", "o", "m">>, FALSE, 4, 8, NoOrth),
       Tok(<<"!">>, TRUE, 8, 9, NoOrth),
       Tok(<<"i", "s">>, TRUE, 10, 12, NoOrth),
       Tok(<<" ">>, FALSE, 13, 14, NoOrth),
       Tok(<<"(">>, FALSE, 14, 15, NoOrth),
       Tok(<<"{">>, FALSE, 15, 16, NoOrth),
       Tok(<<"t", "o", "k", "e", "n">>, FALSE, 16, 22, NoOrth),
       Tok(<<"-">>, FALSE, 21, 23, NoOrth),
       Tok(<<"i", "z", "i", "n", "g">>, TRUE, 22, 28, NoOrth),
       Tok(<<"a">>, TRUE, 28, 29, NoOrth),
       Tok(<<"p", "y", "t", "h", "o", "n">>, FALSE, 30, 36, NoOrth),
       Tok(<<"!">>, TRUE, 36, 37, NoOrth),
       Tok(<<"s", "t", "r", "i", "n", "g">>, FALSE, 38, 44, NoOrth) >>

\* The rows printed by "for token in doc" for my_string.
MyStringTokens ==
    << Tok(<<"I">>, TRUE, NoPos, NoPos, "5943131912006430202"),
       Tok(<<"a", "m">>, TRUE, NoPos, NoPos, "11728213064939857863"),
       Tok(<<"t", "o", "k", "e", "n", "#", "i", "z", "i", "n", "g">>, TRUE,
           NoPos, NoPos, "5371500643362927579"),
       Tok(<<"a">>, TRUE, NoPos, NoPos, "5182201742351716208"),
       Tok(<<"P", "y", "S", "y", "f", "t">>, TRUE, NoPos, NoPos,
           "13286865392898898656"),
       Tok(<<"S", "t", "r", "i", "n", "g">>, TRUE, NoPos, NoPos,
           "13847508276233069841"),
       Tok(<<"o", "b", "j", "e", "c", "t">>, FALSE, NoPos, NoPos,
           "10176415242575268008") >>

-----------------------------------------------------------------------------
(* The library, as far as the notebook shows it *)

\* syfertext.load(model, owner = ...): a Language object with that owner.
load(model, owner) == [type |-> "Language", model |-> model, owner |-> owner]

\* String(text): a PySyft String owned by the local worker.
String(text) == [type |-> "String", owner |-> LocalWorker, value |-> text]

\* The text a Language object is called on: a str, or the str a String wraps.
TextOf(arg) == arg.value

\* Tokenize with space_after set on every token but the last, whatever
\* character follows the token.
TokenizeSpaceBetween(text) ==
    LET toks == IF text = MyStrText THEN MyStrTokens
                ELSE IF text = MyStringText THEN MyStringTokens
                ELSE <<>>
    IN  [i \in DOMAIN toks |-> [toks[i] EXCEPT !.space_after = (i < Len(toks))]]

\* The tokens of a text, in the order the Tokenizer produces them.
Tokenize(text) ==
    IF text = MyStrText THEN MyStrTokens
    ELSE IF text = MyStringText THEN MyStringTokens
    ELSE <<>>

\* The Doc a Language call starts with: owned by the Language's owner's
\* worker, no token yet.
Doc(lang, text) ==
    [type |-> "Doc", owner |-> lang.owner, text |-> text, container |-> <<>>]

\* The Doc keeps track of a token the Tokenizer produced.
Keep(d, token) == [d EXCEPT !.container = Append(@, token)]

\* len(doc)
DocLen(d) == Len(d.container)

\* doc[i], 0-based
GetItem(d, i) == d.container[i + 1]

\* token.vector: the embedding stored for the token's string
Vector(token) == [type |-> "ndarray", of |-> token.text]

-----------------------------------------------------------------------------
(* The kernel *)

\* A kernel that starts a cell while another cell is executing.
KernelAlwaysReady == TRUE

\* A cell starts when no other cell is executing.
KernelIdle == running = {}

CanRun == KernelIdle /\ execution_count < MaxExec

NoIter == [cell |-> "none", doc |-> None, pos |-> 0, rows |-> <<>>]

NoOut == [c5 |-> None, c6 |-> None, c7 |-> None, c9 |-> None,
          c10 |-> None, c12 |-> None, c13 |-> None]

Init ==
    /\ execution_count = 0
    /\ imported = FALSE
    /\ hook = None
    /\ me = None
    /\ nlp = None
    /\ my_str = None
    /\ doc = None
    /\ string_imported = FALSE
    /\ my_string = None
    /\ running = {}
    /\ tokenizer = None
    /\ newdoc = None
    /\ iter = NoIter
    /\ out = NoOut

Count == execution_count' = execution_count + 1

\* import warnings; warnings.filterwarnings('ignore')
Cell1 ==
    /\ CanRun
    /\ Count
    /\ UNCHANGED <<namespace, running, tokenizer, newdoc, iter, out>>

\* import syft as sy; import torch; import syfertext
Cell2 ==
    /\ CanRun
    /\ Count
    /\ imported' = TRUE
    /\ UNCHANGED <<hook, me, nlp, my_str, doc, string_imported, my_string,
                   running, tokenizer, newdoc, iter, out>>

\* hook = sy.TorchHook(torch)
Cell3 ==
    /\ CanRun
    /\ Count
    /\ hook' = IF imported THEN [type |-> "TorchHook", local_worker |-> LocalWorker]
               ELSE hook
    /\ UNCHANGED <<imported, me, nlp, my_str, doc, string_imported, my_string,
                   running, tokenizer, newdoc, iter, out>>

\* me = hook.local_worker
Cell4 ==
    /\ CanRun
    /\ Count
    /\ me' = IF Bound(hook) THEN [type |-> "VirtualWorker", id |-> hook.local_worker]
             ELSE me
    /\ UNCHANGED <<imported, hook, nlp, my_str, doc, string_imported, my_string,
                   running, tokenizer, newdoc, iter, out>>

\* Cell 5 with the model loaded for a worker other than me.
Cell5OtherOwner ==
    /\ CanRun
    /\ Count
    /\ IF imported /\ Bound(me)
       THEN /\ nlp' = load("en_core_web_lg", "bob")
            /\ out' = [out EXCEPT !.c5 = [type |-> nlp'.type, owner |-> nlp'.owner]]
       ELSE UNCHANGED <<nlp, out>>
    /\ UNCHANGED <<imported, hook, me, my_str, doc, string_imported, my_string,
                   running, tokenizer, newdoc, iter>>

\* nlp = syfertext.load('en_core_web_lg', owner = me); type(nlp), nlp.owner
Cell5 ==
    /\ CanRun
    /\ Count
    /\ IF imported /\ Bound(me)
       THEN /\ nlp' = load("en_core_web_lg", me.id)
            /\ out' = [out EXCEPT !.c5 = [type |-> nlp'.type, owner |-> nlp'.owner]]
       ELSE UNCHANGED <<nlp, out>>
    /\ UNCHANGED <<imported, hook, me, my_str, doc, string_imported, my_string,
                   running, tokenizer, newdoc, iter>>

\* The name nlp is bound to a Language object.
NlpBound == Bound(nlp)

\* nlp(arg): the Language object spawns a Tokenizer for the text and a Doc.
Call(cell, lang, arg) ==
    /\ running' = running \cup {cell}
    /\ tokenizer' = [type |-> "Tokenizer", text |-> TextOf(arg),
                     arg |-> arg.type, produced |-> <<>>]
    /\ newdoc' = Doc(lang, TextOf(arg))

\* Cell 6 tokenizing with a Language object of its own instead of nlp.
Cell6WithoutLoad ==
    /\ CanRun
    /\ Count
    /\ my_str' = [type |-> "str", value |-> MyStrText]
    /\ Call("c6", load("en_core_web_lg", LocalWorker), my_str')
    /\ UNCHANGED <<imported, hook, me, nlp, doc, string_imported, my_string,
                   iter, out>>

\* my_str = '...'; doc = nlp(my_str)   -- up to the call
Cell6 ==
    /\ CanRun
    /\ Count
    /\ my_str' = [type |-> "str", value |-> MyStrText]
    /\ IF NlpBound
       THEN Call("c6", nlp, my_str')
       ELSE UNCHANGED <<running, tokenizer, newdoc>>
    /\ UNCHANGED <<imported, hook, me, nlp, doc, string_imported, my_string,
                   iter, out>>

\* The Tokenizer breaks the string into its next Token; the Doc keeps it.
TokenizerStep ==
    /\ Bound(newdoc)
    /\ Len(tokenizer.produced) < Len(Tokenize(tokenizer.text))
    /\ LET token == Tokenize(tokenizer.text)[Len(tokenizer.produced) + 1]
       IN  /\ tokenizer' = [tokenizer EXCEPT !.produced = Append(@, token)]
           /\ newdoc' = Keep(newdoc, token)
    /\ UNCHANGED <<execution_count, namespace, running, iter, out>>

TokenizerDone ==
    /\ Bound(newdoc)
    /\ Len(tokenizer.produced) = Len(Tokenize(tokenizer.text))

\* doc = nlp(my_str) returns; type(doc), doc.owner, len(doc)
Cell6Return ==
    /\ "c6" \in running
    /\ TokenizerDone
    /\ doc' = newdoc
    /\ newdoc' = None
    /\ out' = [out EXCEPT !.c6 = [type |-> doc'.type, owner |-> doc'.owner,
                                  len |-> DocLen(doc')]]
    /\ running' = running \ {"c6"}
    /\ UNCHANGED <<execution_count, imported, hook, me, nlp, my_str,
                   string_imported, my_string, tokenizer, iter>>

\* for token in doc:   -- the loop starts on the Doc that doc names
StartIter(cell, d) == iter' = [cell |-> cell, doc |-> d, pos |-> 0, rows |-> <<>>]

\* for token in doc: print(token, token.space_after, token.start_pos, token.stop_pos)
Cell7 ==
    /\ CanRun
    /\ Count
    /\ IF Bound(doc)
       THEN /\ running' = running \cup {"c7"}
            /\ StartIter("c7", doc)
       ELSE UNCHANGED <<running, iter>>
    /\ UNCHANGED <<namespace, tokenizer, newdoc, out>>

\* A loop that walks the Doc from its last token to its first.
IterStepReversed ==
    /\ iter.cell \in running
    /\ iter.pos < DocLen(iter.doc)
    /\ iter' = [iter EXCEPT !.pos = @ + 1,
                            !.rows = Append(@, iter.doc.container[DocLen(iter.doc) - iter.pos])]
    /\ UNCHANGED <<execution_count, namespace, running, tokenizer, newdoc, out>>

\* One round of the loop: the next token of the Doc is yielded and printed.
IterStep ==
    /\ iter.cell \in running
    /\ iter.pos < DocLen(iter.doc)
    /\ iter' = [iter EXCEPT !.pos = @ + 1,
                            !.rows = Append(@, iter.doc.container[iter.pos + 1])]
    /\ UNCHANGED <<execution_count, namespace, running, tokenizer, newdoc, out>>

\* The loop of cell 7 is exhausted; its rows are the cell's output.
Cell7Return ==
    /\ "c7" \in running
    /\ iter.cell = "c7"
    /\ iter.pos = DocLen(iter.doc)
    /\ out' = [out EXCEPT !.c7 = [doc |-> iter.doc, rows |-> iter.rows]]
    /\ iter' = NoIter
    /\ running' = running \ {"c7"}
    /\ UNCHANGED <<execution_count, namespace, tokenizer, newdoc>>

\* print(doc[2])
Cell9 ==
    /\ CanRun
    /\ Count
    /\ IF Bound(doc) /\ DocLen(doc) > 2
       THEN out' = [out EXCEPT !.c9 = [doc |-> doc, token |-> GetItem(doc, 2)]]
       ELSE UNCHANGED out
    /\ UNCHANGED <<namespace, running, tokenizer, newdoc, iter>>

\* doc[2].vector
Cell10 ==
    /\ CanRun
    /\ Count
    /\ IF Bound(doc) /\ DocLen(doc) > 2
       THEN out' = [out EXCEPT !.c10 = [doc |-> doc, vector |-> Vector(GetItem(doc, 2))]]
       ELSE UNCHANGED out
    /\ UNCHANGED <<namespace, running, tokenizer, newdoc, iter>>

\* from syft.generic.string import String
Cell11 ==
    /\ CanRun
    /\ Count
    /\ string_imported' = TRUE
    /\ UNCHANGED <<imported, hook, me, nlp, my_str, doc, my_string,
                   running, tokenizer, newdoc, iter, out>>

\* my_string = String('...'); type(my_string), my_string.owner
Cell12 ==
    /\ CanRun
    /\ Count
    /\ IF string_imported
       THEN /\ my_string' = String(MyStringText)
            /\ out' = [out EXCEPT !.c12 = [type |-> my_string'.type,
                                           owner |-> my_string'.owner]]
       ELSE UNCHANGED <<my_string, out>>
    /\ UNCHANGED <<imported, hook, me, nlp, my_str, doc, string_imported,
                   running, tokenizer, newdoc, iter>>

\* doc = nlp(my_string)   -- up to the call
Cell13 ==
    /\ CanRun
    /\ Count
    /\ IF NlpBound /\ Bound(my_string)
       THEN Call("c13", nlp, my_string)
       ELSE UNCHANGED <<running, tokenizer, newdoc>>
    /\ UNCHANGED <<namespace, iter, out>>

\* doc = nlp(my_string) returns, and the loop over doc starts
Cell13Loop ==
    /\ "c13" \in running
    /\ TokenizerDone
    /\ doc' = newdoc
    /\ newdoc' = None
    /\ StartIter("c13", doc')
    /\ UNCHANGED <<execution_count, imported, hook, me, nlp, my_str,
                   string_imported, my_string, running, tokenizer, out>>

\* The loop of cell 13 is exhausted; its rows are the cell's output.
Cell13Return ==
    /\ "c13" \in running
    /\ iter.cell = "c13"
    /\ iter.pos = DocLen(iter.doc)
    /\ out' = [out EXCEPT !.c13 = [doc |-> iter.doc, rows |-> iter.rows]]
    /\ iter' = NoIter
    /\ running' = running \ {"c13"}
    /\ UNCHANGED <<execution_count, namespace, tokenizer, newdoc>>

Next ==
    \/ Cell1
    \/ Cell2
    \/ Cell3
    \/ Cell4
    \/ Cell5
    \/ Cell6
    \/ TokenizerStep
    \/ Cell6Return
    \/ Cell7
    \/ IterStep
    \/ Cell7Return
    \/ Cell9
    \/ Cell10
    \/ Cell11
    \/ Cell12
    \/ Cell13
    \/ Cell13Loop
    \/ Cell13Return

Spec == Init /\ [][Next]_vars

-----------------------------------------------------------------------------
(* Properties *)

\* Every Doc object the kernel holds: named, being filled, or being iterated.
Docs == {d \in {doc, newdoc, iter.doc} : Bound(d)}

\* A Doc whose Language call has returned.
Returned == {d \in {doc, iter.doc} : Bound(d)}

Complete(d) == d.container = Tokenize(d.text)

\* Where a token's string lies in the text: the printed start_pos, or, for a
\* Doc whose offsets were not printed, the first occurrence at or after the
\* end of the previous token.
Find(text, t, from) ==
    LET hits == {p \in from..(Len(text) - Len(t)) : SubSeq(text, p + 1, p + Len(t)) = t}
    IN  IF hits = {} THEN Len(text)
        ELSE CHOOSE p \in hits : \A q \in hits : p <= q

RECURSIVE TokenStart(_, _)
TokenStart(d, i) ==
    IF d.container[i].start_pos # NoPos THEN d.container[i].start_pos
    ELSE Find(d.text, d.container[i].text,
              IF i = 1 THEN 0
              ELSE TokenStart(d, i - 1) + Len(d.container[i - 1].text))

\* The position right after the token's last character.
TokenEnd(d, i) == TokenStart(d, i) + Len(d.container[i].text)

\* C1: the pipeline runs in a fixed order: no Tokenizer, Token or Doc exists
\* before load() has returned a Language object, the Doc being filled holds
\* exactly the tokens its Tokenizer has produced so far, and the Doc returned
\* for a text holds every token the Tokenizer produced for that text.
C1_PipelineOrder ==
    /\ (Bound(tokenizer) \/ Docs # {} \/ iter.rows # <<>>) => Bound(nlp)
    /\ Bound(newdoc) =>
          /\ Bound(tokenizer)
          /\ newdoc.text = tokenizer.text
          /\ newdoc.container = tokenizer.produced
    /\ (Bound(doc) /\ ~Bound(newdoc) /\ running \cap {"c6", "c13"} # {}) =>
          /\ doc.text = tokenizer.text
          /\ doc.container = tokenizer.produced
    /\ \A d \in Returned : Complete(d)

C1_Witness ==
    /\ Bound(doc)
    /\ doc.text = MyStringText
    /\ tokenizer.arg = "String"
    /\ Len(tokenizer.produced) = 7
    /\ doc.container = tokenizer.produced
    /\ Bound(out.c6)

\* C2: the Language object returned by load(model, owner = me) is owned by
\* me, every Doc has the owner of the Language object, and no Language or Doc
\* is owned by a worker other than the local one.
C2_Ownership ==
    /\ Bound(nlp) => Bound(me) /\ nlp.owner = me.id /\ nlp.owner = LocalWorker
    /\ \A d \in Docs : d.owner = nlp.owner /\ d.owner = LocalWorker
    /\ Bound(out.c5) => out.c5.owner = LocalWorker
    /\ Bound(out.c6) => out.c6.owner = LocalWorker

C2_Witness ==
    /\ Bound(doc)
    /\ doc.text = MyStringText
    /\ doc.owner = "me"
    /\ Bound(out.c6)
    /\ out.c6.owner = "me"
    /\ Bound(my_string)
    /\ my_string.owner = "me"

\* The rows a loop over d has yielded after pos rounds are the first pos
\* tokens of d, in the order of the Doc.
YieldedInOrder(d, pos, rows) ==
    /\ pos <= DocLen(d)
    /\ rows = SubSeq(d.container, 1, pos)

\* The output of a finished loop over a Doc.
LoopOutputs == {o \in {out.c7, out.c13} : Bound(o)}

\* C4: iterating a Doc yields exactly len(doc) tokens, each once, in the
\* left-to-right order of the original string, and doc[i] is the (i+1)-th
\* token yielded, for every 0 <= i < len(doc).
C4_Iteration ==
    /\ Bound(iter.doc) => YieldedInOrder(iter.doc, iter.pos, iter.rows)
    /\ \A o \in LoopOutputs :
          /\ Len(o.rows) = DocLen(o.doc)
          /\ \A i \in 0..(DocLen(o.doc) - 1) : GetItem(o.doc, i) = o.rows[i + 1]
          /\ \A i \in 1..(Len(o.rows) - 1) :
                TokenStart(o.doc, i) < TokenStart(o.doc, i + 1)
    /\ (Bound(out.c6) /\ Bound(out.c7) /\ out.c7.doc.text = MyStrText) =>
          out.c6.len = Len(out.c7.rows)
    /\ (Bound(out.c9) /\ Bound(out.c7) /\ out.c9.doc = out.c7.doc) =>
          out.c9.token = out.c7.rows[3]

C4_Witness ==
    /\ Bound(out.c7)
    /\ Len(out.c7.rows) = 14
    /\ Bound(out.c9)
    /\ out.c9.doc = out.c7.doc
    /\ out.c9.token.text = <<"!">>
    /\ Bound(out.c13)
    /\ Len(out.c13.rows) = 7

\* C5: a token's space_after is TRUE exactly when the character right after
\* the token's last character in the original string is a space; it is FALSE
\* for a token that ends the string.
C5_SpaceAfter ==
    \A d \in Docs : \A i \in 1..DocLen(d) :
        d.container[i].space_after =
            (TokenEnd(d, i) < Len(d.text) /\ d.text[TokenEnd(d, i) + 1] = " ")

C5_Witness ==
    /\ Bound(doc)
    /\ doc.text = MyStrText
    /\ DocLen(doc) = 14
    /\ doc.container[10].space_after
    /\ ~doc.container[14].space_after
    /\ TokenEnd(doc, 14) = Len(doc.text)
    /\ Bound(out.c13)
    /\ ~out.c13.rows[7].space_after

\* The words of a sentence: its maximal runs of characters other than spaces.
RECURSIVE WordsFrom(_, _, _, _)
WordsFrom(text, i, cur, acc) ==
    IF i > Len(text) THEN (IF cur = <<>> THEN acc ELSE Append(acc, cur))
    ELSE IF text[i] = " "
         THEN WordsFrom(text, i + 1, <<>>, IF cur = <<>> THEN acc ELSE Append(acc, cur))
         ELSE WordsFrom(text, i + 1, Append(cur, text[i]), acc)

Words(text) == WordsFrom(text, 1, <<>>, <<>>)

\* C6: for the Doc obtained from my_str, doc[2] is the token of the third
\* word of the sentence, and doc[2].vector is that word's embedding.
C6_ThirdWord ==
    /\ (Bound(out.c9) /\ out.c9.doc.text = MyStrText) =>
          out.c9.token.text = Words(MyStrText)[3]
    /\ (Bound(out.c10) /\ out.c10.doc.text = MyStrText) =>
          out.c10.vector.of = Words(MyStrText)[3]

Iterating == iter.cell # "none"

\* C7: the calls are sequential: at most one cell's code is executing, no
\* loop runs while a Language call is filling a Doc, and the Doc a loop or an
\* index expression observes has all the tokens of its text.
C7_Sequential ==
    /\ Cardinality(running) <= 1
    /\ Bound(newdoc) => ~Iterating
    /\ Iterating => Complete(iter.doc)
    /\ Bound(out.c9) => Complete(out.c9.doc)
    /\ Bound(out.c10) => Complete(out.c10.doc)

C7_Witness ==
    /\ running = {"c7"}
    /\ iter.pos = 5
    /\ Bound(out.c13)
    /\ Bound(out.c9)

\* C8: token offsets are disjoint, ordered spans of the original string:
\* 0 <= start_pos < stop_pos <= len(text), text[start_pos:stop_pos] is the
\* token's text, and a token's stop_pos is at most the next token's start_pos.
C8_Spans ==
    \A d \in Docs : \A i \in 1..DocLen(d) :
        LET t == d.container[i]
        IN  t.start_pos # NoPos =>
              /\ 0 <= t.start_pos
              /\ t.start_pos < t.stop_pos
              /\ t.stop_pos <= Len(d.text)
              /\ SubSeq(d.text, t.start_pos + 1, t.stop_pos) = t.text
              /\ i < DocLen(d) => t.stop_pos <= d.container[i + 1].start_pos

====
